---- MODULE Spec2Model ----
(***************************************************************************)
(* Model of the wish API of src/main.py: the POST /api/wishes handler      *)
(* (create_wish) and the GET /api/wishes handler (list_wishes) over the    *)
(* "wish" collection of the document store.                                *)
(*                                                                         *)
(* A text is a sequence of characters.  A stored document is a record      *)
(* with the fields _id and text and, unless it was written by something    *)
(* other than create_document, created_at (a clock reading).  A wire       *)
(* record is [id, text, created_at] with id and created_at strings.        *)
(***************************************************************************)
EXTENDS Integers, Sequences, FiniteSets, TLC

VARIABLES db, store, now, last, created

vars == <<db, store, now, last, created>>

\* ---------------------------------------------------------------- bounds
\* The collection holds at most MaxDocs documents.
MaxDocs == 2

\* The clock reads 0..MaxClock.
MaxClock == 3

\* Clock readings per whole second (isoformat drops a zero fraction).
SubSecond == 2

\* ------------------------------------------------------ program constants
\* WishCreate.text: Field(..., min_length=1, max_length=500)
MinLength == 1

MaxLength == 500

\* list_wishes: Query(default=60, ge=1, le=200)
LimitDefault == 60

LimitMin == 1

LimitMax == 200

\* ------------------------------------------------------------- inputs
Rep(n, c) == [i \in 1..n |-> c]

\* Submitted texts: empty, shortest valid, longest valid, one too long.
Texts == { <<>>, Rep(MinLength, "a"), Rep(MaxLength, "b"), Rep(MaxLength + 1, "c") }

\* The limit query parameter: absent ({}) or one integer.
RawLimits == { {}, {LimitMin - 1}, {LimitMin}, {LimitMin + 1}, {LimitMax}, {LimitMax + 1} }

\* A document of the collection that create_document did not write: it has
\* no created_at (the case lines 101 and 119 provide for).
LegacyDoc == [_id |-> 1, text |-> Rep(MinLength, "a")]

\* What the collection may hold when the process starts.
InitStores == { <<>>, <<LegacyDoc>> }

\* ------------------------------------------------------------- helpers
Min(a, b) == IF a <= b THEN a ELSE b

Range(s) == { s[i] : i \in 1..Len(s) }

\* Comparison of two strings, each a sequence of fixed-width fields:
\* lexicographic, a proper prefix being the smaller.
StrLess(a, b) ==
    \E k \in 1..(Min(Len(a), Len(b)) + 1) :
        /\ \A i \in 1..(k - 1) : a[i] = b[i]
        /\ \/ k > Len(a) /\ k <= Len(b)
           \/ k <= Len(a) /\ k <= Len(b) /\ a[k] < b[k]

StrGeq(a, b) == ~StrLess(a, b)

\* datetime.isoformat(): the whole seconds, then the fraction unless it is 0.
isoformat(t) ==
    IF t % SubSecond = 0 THEN << t \div SubSecond >>
    ELSE << t \div SubSecond, t % SubSecond >>

\* str(ObjectId) and bson.ObjectId(str).
StrOid(oid) == ToString(oid)

ObjectId(s) == CHOOSE n \in 1..(MaxDocs + 2) : ToString(n) = s

\* doc.get(field) is truthy.
HasField(doc, f) == f \in DOMAIN doc

\* --------------------------------------------------------- validation
\* WishCreate with max_length exclusive.
WishCreateShort(text) == MinLength <= Len(text) /\ Len(text) < MaxLength

\* WishCreate without min_length.
WishCreateNoMin(text) == Len(text) <= MaxLength

\* WishCreate: the request body model, validated before the handler runs.
WishCreate(text) == MinLength <= Len(text) /\ Len(text) <= MaxLength

\* schemas.Wish(text=...): the schema the handler validates against.
Wish(text) == 1 <= Len(text) /\ Len(text) <= 500

\* Query(default=60, ge=1, le=200): the value of the limit parameter.
QueryLimit(raw) == IF raw = {} THEN LimitDefault ELSE CHOOSE n \in raw : TRUE

\* The limit accepted whatever its value.
LimitValidAny(raw) == TRUE

\* Query(ge=1, le=200)
LimitValid(raw) == LimitMin <= QueryLimit(raw) /\ QueryLimit(raw) <= LimitMax

\* The handler without its store check.
DbIsNoneNever == FALSE

\* `db is None`
DbIsNone == ~db

\* --------------------------------------------------------- the store
\* database.create_document(collection, data): stamps created_at, inserts,
\* and returns the identifier the store assigned, as a string.
create_document(coll, text, t) ==
    LET oid == Len(coll) + 1
    IN  [store |-> Append(coll, [_id |-> oid, text |-> text, created_at |-> t]),
         inserted_id |-> StrOid(oid)]

\* The write as an upsert keyed on the text: it replaces the documents that
\* already hold this text.
CreateDocumentUpsert(coll, text, t) ==
    LET oid == Len(coll) + 1
        kept == SelectSeq(coll, LAMBDA d : d.text # text)
    IN  [store |-> Append(kept, [_id |-> oid, text |-> text, created_at |-> t]),
         inserted_id |-> StrOid(oid)]

\* line 92: the handler's one write.
CreateDocumentCall(coll, text, t) == create_document(coll, text, t)

\* db["wish"].find_one({"_id": oid}): the document, or nothing when the
\* read misses it.
find_one(coll, oid, miss) ==
    IF miss THEN {} ELSE { d \in Range(coll) : d._id = oid }

\* The sort key of .sort("created_at", -1): a missing field sorts as null,
\* below every date.
SortKey(doc) == IF HasField(doc, "created_at") THEN doc.created_at ELSE -1

\* db["wish"].find({}).sort("created_at", -1): every order of the documents
\* that is descending in the key; documents with equal keys come in any
\* order.
SortedCursors(coll) ==
    LET n == Len(coll)
        perms == { p \in [1..n -> 1..n] :
                     /\ \A i, j \in 1..n : i # j => p[i] # p[j]
                     /\ \A i, j \in 1..n :
                          i < j => SortKey(coll[p[i]]) >= SortKey(coll[p[j]]) }
    IN  { [i \in 1..n |-> coll[p[i]]] : p \in perms }

\* .limit(n)
Limit(cursor, n) == SubSeq(cursor, 1, Min(n, Len(cursor)))

\* ------------------------------------------------------ response mapping
\* lines 98-102: the wire record of the re-read document.
WishOutOfCreate(doc, t) ==
    [id |-> StrOid(doc._id),
     text |-> IF HasField(doc, "text") THEN doc.text ELSE <<>>,
     created_at |-> IF HasField(doc, "created_at")
                    THEN isoformat(doc.created_at) ELSE isoformat(t)]

\* The listed record stamped with the time of the listing.
WishOutOfListNow(doc, t) ==
    [id |-> StrOid(doc._id),
     text |-> IF HasField(doc, "text") THEN doc.text ELSE <<>>,
     created_at |-> isoformat(t)]

\* lines 115-121: the wire record of one listed document.
WishOutOfList(doc, t) ==
    [id |-> StrOid(doc._id),
     text |-> IF HasField(doc, "text") THEN doc.text ELSE <<>>,
     created_at |-> IF HasField(doc, "created_at")
                    THEN isoformat(doc.created_at) ELSE isoformat(t)]

\* The response falling back to the request payload when the re-read finds
\* nothing.
CreateResponseFromPayload(found, text, t) ==
    IF found = {}
    THEN [status |-> "ok",
          body |-> << [id |-> "None", text |-> text, created_at |-> isoformat(t)] >>]
    ELSE [status |-> "ok",
          body |-> << WishOutOfCreate(CHOOSE d \in found : TRUE, t) >>]

\* lines 95-102: nothing re-read is a server error, else the mapped document.
CreateResponse(found, text, t) ==
    IF found = {}
    THEN [status |-> "PersistenceError", body |-> <<>>]
    ELSE [status |-> "ok",
          body |-> << WishOutOfCreate(CHOOSE d \in found : TRUE, t) >>]

\* ------------------------------------------------------------ handlers
\* What a request leaves behind: its status, its response body, the store
\* operations it issued in order, the collection afterwards and what the
\* re-read returned.
Outcome(status, body, ops, coll, reread) ==
    [status |-> status, body |-> body, ops |-> ops, store |-> coll,
     reread |-> reread]

\* POST /api/wishes.  `miss` says whether the re-read finds nothing.
create_wish(text, miss) ==
    IF ~WishCreate(text)
    THEN Outcome("ValidationError", <<>>, <<>>, store, {})
    ELSE IF DbIsNone
    THEN Outcome("StoreUnavailable", <<>>, <<>>, store, {})
    ELSE IF ~Wish(text)
    THEN Outcome("SchemaError", <<>>, <<>>, store, {})
    ELSE LET ins == CreateDocumentCall(store, text, now)
             found == find_one(ins.store, ObjectId(ins.inserted_id), miss)
             resp == CreateResponse(found, text, now)
         IN  Outcome(resp.status, resp.body, <<"insert_one", "find_one">>,
                     ins.store, found)

\* GET /api/wishes.  `cursor` is the order the sorted query yields (read
\* only when the query is issued).
list_wishes(raw, cursor) ==
    IF ~LimitValid(raw)
    THEN Outcome("ValidationError", <<>>, <<>>, store, {})
    ELSE IF DbIsNone
    THEN Outcome("StoreUnavailable", <<>>, <<>>, store, {})
    ELSE LET docs == Limit(cursor, QueryLimit(raw))
         IN  Outcome("ok", [i \in 1..Len(docs) |-> WishOutOfList(docs[i], now)],
                     <<"find">>, store, {})

\* ------------------------------------------------------------- actions
NoRequest ==
    [op |-> "none", text |-> <<>>, limit |-> {}, status |-> "none",
     body |-> <<>>, ops |-> <<>>, reread |-> {}]

Request(op, text, raw, r) ==
    [op |-> op, text |-> text, limit |-> raw, status |-> r.status,
     body |-> r.body, ops |-> r.ops, reread |-> r.reread]

Init ==
    /\ db \in BOOLEAN
    /\ store \in (IF db THEN InitStores ELSE { <<>> })
    /\ now = 0
    /\ last = NoRequest
    /\ created = {}

CreateWishWith(misses) ==
    /\ Len(store) < MaxDocs
    /\ \E text \in Texts, miss \in misses :
         LET r == create_wish(text, miss)
         IN  /\ store' = r.store
             /\ last' = Request("create", text, {}, r)
             /\ created' = IF r.status = "ok"
                           THEN created \cup Range(r.body) ELSE created
    /\ UNCHANGED <<db, now>>

\* A create against a store whose reads see its acknowledged writes.
CreateWish == CreateWishWith({FALSE})

\* A create against a store whose re-read may miss the document.
CreateWishFault == CreateWishWith(BOOLEAN)

ListWishes ==
    /\ \E raw \in RawLimits :
       \E cursor \in (IF LimitValid(raw) /\ ~DbIsNone
                       THEN SortedCursors(store) ELSE { <<>> }) :
         LET r == list_wishes(raw, cursor)
         IN  /\ store' = r.store
             /\ last' = Request("list", <<>>, raw, r)
    /\ UNCHANGED <<db, now, created>>

\* The server clock advances.
Tick ==
    /\ now < MaxClock
    /\ now' = now + 1
    /\ UNCHANGED <<db, store, last, created>>

Next == CreateWish \/ ListWishes \/ Tick

Spec == Init /\ [][Next]_vars

NextFault == CreateWishFault \/ ListWishes \/ Tick

SpecFault == Init /\ [][NextFault]_vars

\* ============================================================== claims
\* A text of 1 to 500 characters.
ValidLength(t) == 1 <= Len(t) /\ Len(t) <= 500

\* The integer a limit parameter stands for (60 when absent).
LimitOf(raw) == IF raw = {} THEN 60 ELSE CHOOSE n \in raw : TRUE

ListedOk == last.op = "list" /\ last.status = "ok"

\* C1: with a store connection, a create with a text of 1..500 characters
\* succeeds and returns one record whose text is the submitted text.
C1_CreateReturnsText ==
    (last.op = "create" /\ db /\ ValidLength(last.text)) =>
        /\ last.status = "ok"
        /\ Len(last.body) = 1
        /\ last.body[1].text = last.text

\* C1 witness: a 500-character text created into a store that already held
\* a record.
C1_Witness ==
    /\ last.op = "create" /\ last.status = "ok"
    /\ Len(last.text) = 500
    /\ Len(store) >= 2
    /\ last.body[1].text = last.text

\* C2: a create with an empty or over-long text ends in a validation error,
\* issues no store operation and leaves the store as it was.
C2_InvalidTextRejected ==
    [][(last'.op = "create" /\ ~ValidLength(last'.text)) =>
          /\ last'.status = "ValidationError"
          /\ last'.ops = <<>>
          /\ store' = store]_vars

\* C2 witness: a 501-character text rejected against a non-empty store.
C2_Witness ==
    /\ last.op = "create" /\ Len(last.text) = 501
    /\ last.status = "ValidationError"
    /\ db /\ Len(store) >= 1

\* C3: in every list result the wire created_at values are descending
\* (as strings), records with a substituted created_at included.
C3_ListDescending ==
    ListedOk =>
        \A i, j \in 1..Len(last.body) :
            i < j => StrGeq(last.body[i].created_at, last.body[j].created_at)

\* C4: a list with a limit in 1..200 returns at most limit records; with a
\* limit outside 1..200 it ends in a validation error, returns nothing and
\* issues no query.
C4_LimitBounds ==
    last.op = "list" =>
        IF 1 <= LimitOf(last.limit) /\ LimitOf(last.limit) <= 200
        THEN /\ Len(last.body) <= LimitOf(last.limit)
             /\ db => last.status = "ok"
        ELSE /\ last.status = "ValidationError"
             /\ last.body = <<>>
             /\ last.ops = <<>>

\* C4 witness: a list whose limit cut the result short.
C4_Witness ==
    /\ ListedOk
    /\ Len(last.body) = LimitOf(last.limit)
    /\ Len(store) > LimitOf(last.limit)

\* C5: when the store holds exactly the n records of n successful creates,
\* a list with limit L returns min(L, n) records: the last min(L, n)
\* created, the newest first.
C5_ListMostRecent ==
    (ListedOk /\ Cardinality(created) = Len(store)) =>
        /\ Len(last.body) = Min(LimitOf(last.limit), Len(store))
        /\ \A i \in 1..Len(last.body) :
               last.body[i].id = StrOid(store[Len(store) - i + 1]._id)

\* C6 as claimed: every list result holds every record a create returned.
C6_RoundTripAnyLimit ==
    ListedOk => \A c \in created : c \in Range(last.body)

\* C6 as amended: a list whose limit is at least the number of stored
\* records holds every record a create returned, and in any list result a
\* record with a created record's id is that record (same text, same
\* created_at).
C6_RoundTrip ==
    ListedOk =>
        \A c \in created :
            /\ Len(store) <= LimitOf(last.limit) => c \in Range(last.body)
            /\ \A i \in 1..Len(last.body) :
                   last.body[i].id = c.id => last.body[i] = c

\* C6 witness: two created records listed after the clock moved on.
C6_Witness ==
    /\ ListedOk
    /\ Cardinality(created) >= 2
    /\ \A c \in created : c \in Range(last.body)
    /\ \E c \in created : c.created_at # isoformat(now)

\* C7: a list leaves the store unchanged, and a list that follows a list
\* with the same limit returns the same set of records.
C7_ListIdempotent ==
    [][(last'.op = "list" => store' = store)
       /\ ((last.op = "list" /\ last.status = "ok"
            /\ last'.op = "list" /\ last'.status = "ok"
            /\ last'.limit = last.limit)
           => Range(last'.body) = Range(last.body))]_vars

\* C8 as claimed: without a store connection every create, whatever its
\* text, ends in StoreUnavailable.
C8_UnavailableFirst ==
    (last.op = "create" /\ ~db) =>
        last.status = "StoreUnavailable" /\ last.ops = <<>>

\* C8 as amended: without a store connection a create issues no store
\* operation; it ends in StoreUnavailable when its text has 1..500
\* characters and in the validation error otherwise.
C8_UnavailableAfterValidation ==
    (last.op = "create" /\ ~db) =>
        /\ last.ops = <<>>
        /\ store = <<>>
        /\ last.body = <<>>
        /\ IF ValidLength(last.text)
           THEN last.status = "StoreUnavailable"
           ELSE last.status = "ValidationError"

\* C8 witness: a valid text refused for want of a store connection.
C8_Witness ==
    /\ last.op = "create" /\ ~db
    /\ ValidLength(last.text)
    /\ last.status = "StoreUnavailable"

\* C9: no step changes or removes a stored record, and a step in which a
\* create succeeds adds exactly one.
C9_AppendOnly ==
    [][/\ Len(store) <= Len(store')
       /\ \A i \in 1..Len(store) : store'[i] = store[i]
       /\ created' # created => Len(store') = Len(store) + 1]_vars

\* C9 witness: a list after two creates, the first record still stored.
C9_Witness ==
    /\ last.op = "list"
    /\ Cardinality(created) >= 2
    /\ Len(store) >= 2
    /\ \A c \in created : \E i \in 1..Len(store) : StrOid(store[i]._id) = c.id

\* C10: a create that inserted re-reads once; when the re-read finds
\* nothing it ends in PersistenceError with no record returned, and when
\* it finds the document the response is that document's wire record.
C10_ReReadDecides ==
    (last.op = "create" /\ last.ops # <<>>) =>
        /\ last.ops = <<"insert_one", "find_one">>
        /\ IF last.reread = {}
           THEN last.status = "PersistenceError" /\ last.body = <<>>
           ELSE /\ last.status = "ok"
                /\ \E d \in last.reread :
                     /\ d \in Range(store)
                     /\ last.body = << [id |-> StrOid(d._id), text |-> d.text,
                                        created_at |-> isoformat(d.created_at)] >>

\* C10 witness: an insert whose re-read found nothing.
C10_Witness ==
    /\ last.op = "create"
    /\ last.ops = <<"insert_one", "find_one">>
    /\ last.reread = {}
    /\ last.status = "PersistenceError"

====
